---- MODULE Spec2Model ----
(***************************************************************************)
(* Model of dbus/dbus-dataslot.c: the data slot allocator                  *)
(* (DBusDataSlotAllocator) and the data slot list (DBusDataSlotList).      *)
(*                                                                         *)
(* C arrays are functions over 0..n-1; a NULL array is the empty function. *)
(* Pointers stored in a list and free functions are small naturals, NULL   *)
(* is 0.                                                                   *)
(***************************************************************************)
EXTENDS Integers, Sequences, FiniteSets, Bags, TLC

\* ---------------------------------------------------------------- bounds
\* Heap capacity for the allocator's table: dbus_realloc fails beyond it.
MaxSlots == 3
\* Distinct non-NULL data pointers a caller stores.
MaxData == 1
\* Number of threads of the threaded specification.
NThreads == 2

NULL == 0
DataPtrs == 0..MaxData
\* The free function of the test, as a DBusFreeFunction value.
test_free_slot_data_func == 1
FreeFuncs == {NULL, test_free_slot_data_func}
\* The int slot a caller passes: alloc's results, and -1, its failure value.
SlotArgs == (-1)..(MaxSlots - 1)
Threads == 1..NThreads
NoThread == 0

VARIABLES
  allocator,   \* DBusDataSlotAllocator: allocated_slots, n_allocated_slots, n_used_slots, lock
  list,        \* DBusDataSlotList: slots, n_slots
  status,      \* "running"; "aborted" once a _dbus_assert has failed;
               \* "undefined" once released storage has been written
  live,        \* bag of the identifiers returned by alloc and not yet passed to free
  emptied,     \* TRUE while the latest change of live was the free of its last identifier
  ever_set,    \* the slots of list stored by set since its init or its latest free
  set_pair,    \* for each slot of ever_set, the (data, free_data_func) set stored last
  any_free,    \* TRUE once free has released an identifier
  last,        \* the latest call: its arguments, its results, the free functions it ran
  pc,          \* threaded specification: the line each thread is at
  t_slot,      \* threaded specification: each thread's local variable slot
  held         \* threaded specification: the identifiers each thread got from alloc

vars == <<allocator, list, status, live, emptied, ever_set, set_pair, any_free,
          last, pc, t_slot, held>>

\* ------------------------------------------------ C arrays as functions
EmptyArray == << >>

\* dbus_realloc (a, n + 1) followed by a store to the new element.
Append0(a, n, v) == [i \in 0..n |-> IF i < n THEN a[i] ELSE v]

\* ------------------------------------------------------------ allocator
\* _dbus_data_slot_allocator_init
InitAllocator ==
  [allocated_slots |-> EmptyArray, n_allocated_slots |-> 0,
   n_used_slots |-> 0, lock |-> NoThread]

\* The while loop of alloc: the first index whose entry is negative, or
\* n_allocated_slots when the loop runs off the end.
RECURSIVE ScanFrom(_, _, _)
ScanFrom(tbl, n, slot) ==
  IF slot < n
  THEN IF tbl[slot] < 0 THEN slot ELSE ScanFrom(tbl, n, slot + 1)
  ELSE slot

FirstFreeSlotNonPositive(a) ==
  LET free == {i \in 0..(a.n_allocated_slots - 1) : a.allocated_slots[i] <= 0} IN
    IF free = {} THEN a.n_allocated_slots
    ELSE CHOOSE i \in free : \A j \in free : i <= j

FirstFreeSlotLast(a) ==
  LET free == {i \in 0..(a.n_allocated_slots - 1) : a.allocated_slots[i] < 0} IN
    IF free = {} THEN a.n_allocated_slots
    ELSE CHOOSE i \in free : \A j \in free : i >= j

FirstFreeSlot(a) == ScanFrom(a.allocated_slots, a.n_allocated_slots, 0)

\* The branch of alloc taken when n_used_slots < n_allocated_slots.
\* ok is the assertion slot < n_allocated_slots after the loop.
AllocReuseNoCount(a) ==
  LET slot == FirstFreeSlot(a) IN
    IF slot < a.n_allocated_slots
    THEN [a |-> [a EXCEPT !.allocated_slots[slot] = slot],
          slot |-> slot, ok |-> TRUE]
    ELSE [a |-> a, slot |-> slot, ok |-> FALSE]

AllocReuse(a) ==
  LET slot == FirstFreeSlot(a) IN
    IF slot < a.n_allocated_slots
    THEN [a |-> [a EXCEPT !.allocated_slots[slot] = slot,
                          !.n_used_slots = @ + 1],
          slot |-> slot, ok |-> TRUE]
    ELSE [a |-> a, slot |-> slot, ok |-> FALSE]

\* The else branch of alloc: grow the table by one entry; mem_ok is
\* whether dbus_realloc returned non-NULL.
AllocGrowLoseTable(a, mem_ok) ==
  IF ~mem_ok
  THEN [a |-> [a EXCEPT !.allocated_slots = EmptyArray], slot |-> -1, ok |-> TRUE]
  ELSE LET slot == a.n_allocated_slots IN
    [a |-> [a EXCEPT !.allocated_slots = Append0(a.allocated_slots, slot, slot),
                     !.n_allocated_slots = @ + 1,
                     !.n_used_slots = @ + 1],
     slot |-> slot, ok |-> TRUE]

AllocGrowCountFirst(a, mem_ok) ==
  IF ~mem_ok
  THEN [a |-> a, slot |-> -1, ok |-> TRUE]
  ELSE LET slot == a.n_allocated_slots + 1 IN
    [a |-> [a EXCEPT !.allocated_slots = Append0(a.allocated_slots, slot - 1, slot),
                     !.n_allocated_slots = @ + 1,
                     !.n_used_slots = @ + 1],
     slot |-> slot, ok |-> TRUE]

AllocGrow(a, mem_ok) ==
  IF ~mem_ok
  THEN [a |-> a, slot |-> -1, ok |-> TRUE]
  ELSE LET slot == a.n_allocated_slots IN
    [a |-> [a EXCEPT !.allocated_slots = Append0(a.allocated_slots, slot, slot),
                     !.n_allocated_slots = @ + 1,
                     !.n_used_slots = @ + 1],
     slot |-> slot, ok |-> TRUE]

\* The body of alloc between dbus_mutex_lock and the label out.
AllocBody(a, mem_ok) ==
  IF a.n_used_slots < a.n_allocated_slots
  THEN AllocReuse(a)
  ELSE AllocGrow(a, mem_ok)

\* The two assertions at the start of free, set and get.
SlotIsAllocated(a, slot) ==
  /\ slot < a.n_allocated_slots
  /\ a.allocated_slots[slot] = slot

\* The body of free after its assertions.
FreeBodyKeepTable(a, slot) ==
  [a EXCEPT !.allocated_slots[slot] = -1, !.n_used_slots = @ - 1]

FreeBodyNoDecrement(a, slot) ==
  LET b == [a EXCEPT !.allocated_slots[slot] = -1] IN
    IF b.n_used_slots = 0
    THEN [b EXCEPT !.allocated_slots = EmptyArray, !.n_allocated_slots = 0]
    ELSE b

FreeBody(a, slot) ==
  LET b == [a EXCEPT !.allocated_slots[slot] = -1, !.n_used_slots = @ - 1] IN
    IF b.n_used_slots = 0
    THEN [b EXCEPT !.allocated_slots = EmptyArray, !.n_allocated_slots = 0]
    ELSE b

\* ----------------------------------------------------------------- list
\* A DBusDataSlot whose two fields are NULL.
NullSlot == [data |-> NULL, free_data_func |-> NULL]

\* _dbus_data_slot_list_init
InitList == [slots |-> EmptyArray, n_slots |-> 0]

\* The growth of set: dbus_realloc to slot + 1 entries and the loop that
\* clears the entries from the old n_slots on.
ListGrowOneMore(l, slot) ==
  [slots |-> [i \in 0..(slot + 1) |-> IF i < l.n_slots THEN l.slots[i] ELSE NullSlot],
   n_slots |-> slot + 2]

ListGrowClearAll(l, slot) ==
  [slots |-> [i \in 0..slot |-> NullSlot], n_slots |-> slot + 1]

ListGrow(l, slot) ==
  [slots |-> [i \in 0..slot |-> IF i < l.n_slots THEN l.slots[i] ELSE NullSlot],
   n_slots |-> slot + 1]

\* _dbus_data_slot_list_set after its assertions; mem_ok is whether
\* dbus_realloc returned non-NULL. ret is the dbus_bool_t result, out_set
\* whether *old_data and *old_free_func were written.
ListSetGrowThenFail(l, slot, data, free_data_func, mem_ok) ==
  IF slot >= l.n_slots /\ ~mem_ok
  THEN [list |-> ListGrow(l, slot), ret |-> 0, out_set |-> FALSE,
        old_data |-> NULL, old_free_func |-> NULL]
  ELSE LET g == IF slot >= l.n_slots THEN ListGrow(l, slot) ELSE l IN
    [list |-> [g EXCEPT !.slots[slot] =
                 [data |-> data, free_data_func |-> free_data_func]],
     ret |-> 1, out_set |-> TRUE,
     old_data |-> g.slots[slot].data,
     old_free_func |-> g.slots[slot].free_data_func]

ListSetReadAfterWrite(l, slot, data, free_data_func, mem_ok) ==
  IF slot >= l.n_slots /\ ~mem_ok
  THEN [list |-> l, ret |-> 0, out_set |-> FALSE,
        old_data |-> NULL, old_free_func |-> NULL]
  ELSE LET g == IF slot >= l.n_slots THEN ListGrow(l, slot) ELSE l IN
    [list |-> [g EXCEPT !.slots[slot] =
                 [data |-> data, free_data_func |-> free_data_func]],
     ret |-> 1, out_set |-> TRUE,
     old_data |-> data,
     old_free_func |-> free_data_func]

ListSet(l, slot, data, free_data_func, mem_ok) ==
  IF slot >= l.n_slots /\ ~mem_ok
  THEN [list |-> l, ret |-> 0, out_set |-> FALSE,
        old_data |-> NULL, old_free_func |-> NULL]
  ELSE LET g == IF slot >= l.n_slots THEN ListGrow(l, slot) ELSE l IN
    [list |-> [g EXCEPT !.slots[slot] =
                 [data |-> data, free_data_func |-> free_data_func]],
     ret |-> 1, out_set |-> TRUE,
     old_data |-> g.slots[slot].data,
     old_free_func |-> g.slots[slot].free_data_func]

\* _dbus_data_slot_list_get after its assertions: the list it leaves and
\* the pointer it returns.
ListGetGrowing(l, slot) ==
  IF slot >= l.n_slots
  THEN [list |-> ListGrow(l, slot), ret |-> NULL]
  ELSE [list |-> l, ret |-> l.slots[slot].data]

ListGet(l, slot) ==
  IF slot >= l.n_slots
  THEN [list |-> l, ret |-> NULL]
  ELSE [list |-> l, ret |-> l.slots[slot].data]

\* The while loop of _dbus_data_slot_list_free from index i on: the calls
\* (* free_data_func) (data) it makes, in the order it makes them.
RECURSIVE FreeLoop(_, _, _)
FreeLoop(slots, n, i) ==
  IF i < n
  THEN (IF slots[i].free_data_func # NULL
        THEN << [func |-> slots[i].free_data_func, data |-> slots[i].data] >>
        ELSE << >>) \o FreeLoop(slots, n, i + 1)
  ELSE << >>

\* _dbus_data_slot_list_free: the calls it makes and the list it leaves.
ListFreeSkipFirst(l) ==
  [calls |-> FreeLoop(l.slots, l.n_slots, 1), list |-> InitList]

ListFreeKeepEntries(l) ==
  [calls |-> FreeLoop(l.slots, l.n_slots, 0), list |-> l]

ListFree(l) ==
  [calls |-> FreeLoop(l.slots, l.n_slots, 0), list |-> InitList]

\* ------------------------------------------------- the caller's records
NoCall ==
  [op |-> "none", slot |-> 0, data |-> NULL, free_data_func |-> NULL,
   locked |-> FALSE, unlocked |-> FALSE, asserted |-> FALSE, undefined |-> FALSE,
   ret |-> 0, out_set |-> FALSE, old_data |-> NULL, old_free_func |-> NULL,
   calls |-> << >>, dropped |-> 0, restart |-> FALSE]

\* The bag of the pairs that the function f holds, (NULL, NULL) left out.
PairsOf(f) ==
  LET ps == {f[s] : s \in DOMAIN f} \ {NullSlot} IN
    [p \in ps |-> Cardinality({s \in DOMAIN f : f[s] = p})]

\* The pairs without a free function that list_free lets go without a call.
Dropped(call) ==
  IF call.op = "list_free"
  THEN PairsOf([s \in {x \in DOMAIN set_pair : set_pair[x].free_data_func = NULL}
                  |-> set_pair[s]])
  ELSE EmptyBag

\* The call returned to its caller: no assertion stopped it and it read
\* nothing outside an array.
Returned(call) == ~call.asserted /\ ~call.undefined

ThreadVars == <<pc, t_slot, held>>

Init ==
  /\ allocator = InitAllocator
  /\ list = InitList
  /\ status = "running"
  /\ live = EmptyBag
  /\ emptied = FALSE
  /\ ever_set = {}
  /\ set_pair = << >>
  /\ any_free = FALSE
  /\ last = NoCall
  /\ pc = [t \in Threads |-> "idle"]
  /\ t_slot = [t \in Threads |-> -1]
  /\ held = [t \in Threads |-> {}]

\* --------------------------------- one caller: each call is one action,
\* made when the caller is done with the results of the call before.

\* The assertions of free, set and get for a negative slot: the first,
\* slot < n_allocated_slots, holds, and the second reads
\* allocated_slots[slot] in front of the table (or of NULL). What is read
\* there is anything: the assertion fails, or it passes (or the read
\* faults) and the program is outside what the C code defines.
AssertBelowTable(op, slot) ==
  \E st \in {"aborted", "undefined"} :
    /\ status' = st
    /\ last' = [NoCall EXCEPT !.op = op, !.slot = slot,
                              !.asserted = (st = "aborted"),
                              !.undefined = (st = "undefined")]

\* _dbus_data_slot_allocator_alloc. lock_ok is the result of
\* dbus_mutex_lock, mem_ok of dbus_realloc (NULL once the heap is full).
dbus_data_slot_allocator_alloc ==
  /\ status = "running"
  /\ last.op = "none"
  /\ \E lock_ok \in BOOLEAN,
        mem_ok \in (IF allocator.n_allocated_slots < MaxSlots THEN BOOLEAN ELSE {FALSE}) :
       IF ~lock_ok
       THEN /\ last' = [NoCall EXCEPT !.op = "alloc", !.ret = -1, !.restart = emptied]
            /\ UNCHANGED <<allocator, status, live, emptied>>
       ELSE LET r == AllocBody(allocator, mem_ok) IN
         IF ~r.ok
         THEN /\ status' = "aborted"
              /\ allocator' = [r.a EXCEPT !.lock = 1]
              /\ last' = [NoCall EXCEPT !.op = "alloc", !.locked = TRUE,
                                        !.asserted = TRUE, !.restart = emptied]
              /\ UNCHANGED <<live, emptied>>
         ELSE /\ allocator' = r.a
              /\ last' = [NoCall EXCEPT !.op = "alloc", !.locked = TRUE,
                                        !.unlocked = TRUE, !.ret = r.slot,
                                        !.restart = emptied]
              /\ live' = IF r.slot >= 0 THEN live (+) SetToBag({r.slot}) ELSE live
              /\ emptied' = IF r.slot >= 0 THEN FALSE ELSE emptied
              /\ UNCHANGED status
  /\ UNCHANGED <<list, ever_set, set_pair, any_free, ThreadVars>>

dbus_data_slot_allocator_free_ClearingList ==
  /\ status = "running"
  /\ last.op = "none"
  /\ \E slot \in SlotArgs, lock_ok \in BOOLEAN :
       /\ slot >= 0
       /\ SlotIsAllocated(allocator, slot)
       /\ allocator' = FreeBody(allocator, slot)
       /\ list' = IF slot < list.n_slots
                  THEN [list EXCEPT !.slots[slot] = NullSlot]
                  ELSE list
       /\ last' = [NoCall EXCEPT !.op = "free", !.slot = slot,
                                 !.locked = lock_ok, !.unlocked = TRUE]
       /\ live' = live (-) SetToBag({slot})
       /\ emptied' = (live' = EmptyBag)
       /\ any_free' = TRUE
  /\ UNCHANGED <<status, ever_set, set_pair, ThreadVars>>

\* _dbus_data_slot_allocator_free. The result of dbus_mutex_lock is not
\* looked at: the body and dbus_mutex_unlock run whether or not it is TRUE.
dbus_data_slot_allocator_free ==
  /\ status = "running"
  /\ last.op = "none"
  /\ \E slot \in SlotArgs, lock_ok \in BOOLEAN :
       IF slot < 0
       THEN /\ AssertBelowTable("free", slot)
            /\ UNCHANGED <<allocator, live, emptied, any_free>>
       ELSE IF ~SlotIsAllocated(allocator, slot)
       THEN /\ status' = "aborted"
            /\ allocator' = [allocator EXCEPT !.lock = IF lock_ok THEN 1 ELSE NoThread]
            /\ last' = [NoCall EXCEPT !.op = "free", !.slot = slot,
                                      !.locked = lock_ok, !.asserted = TRUE]
            /\ UNCHANGED <<live, emptied, any_free>>
       ELSE /\ allocator' = FreeBody(allocator, slot)
            /\ last' = [NoCall EXCEPT !.op = "free", !.slot = slot,
                                      !.locked = lock_ok, !.unlocked = TRUE]
            /\ live' = live (-) SetToBag({slot})
            /\ emptied' = (live' = EmptyBag)
            /\ any_free' = TRUE
            /\ UNCHANGED status
  /\ UNCHANGED <<list, ever_set, set_pair, ThreadVars>>

\* _dbus_data_slot_list_set
dbus_data_slot_list_set ==
  /\ status = "running"
  /\ last.op = "none"
  /\ \E slot \in SlotArgs, data \in DataPtrs, free_data_func \in FreeFuncs :
     \E mem_ok \in (IF slot >= list.n_slots THEN BOOLEAN ELSE {TRUE}) :
       LET call == [NoCall EXCEPT !.op = "set", !.slot = slot, !.data = data,
                                  !.free_data_func = free_data_func] IN
       IF slot < 0
       THEN /\ AssertBelowTable("set", slot)
            /\ UNCHANGED <<list, ever_set, set_pair>>
       ELSE IF ~SlotIsAllocated(allocator, slot)
       THEN /\ status' = "aborted"
            /\ last' = [NoCall EXCEPT !.op = "set", !.slot = slot, !.asserted = TRUE]
            /\ UNCHANGED <<list, ever_set, set_pair>>
       ELSE LET r == ListSet(list, slot, data, free_data_func, mem_ok) IN
            /\ list' = r.list
            /\ ever_set' = IF r.ret = 1 THEN ever_set \cup {slot} ELSE ever_set
            /\ set_pair' =
                 IF r.ret = 1
                 THEN [s \in ever_set \cup {slot} |->
                         IF s = slot
                         THEN [data |-> data, free_data_func |-> free_data_func]
                         ELSE set_pair[s]]
                 ELSE set_pair
            /\ last' = [call EXCEPT !.ret = r.ret, !.out_set = r.out_set,
                                    !.old_data = r.old_data,
                                    !.old_free_func = r.old_free_func]
            /\ UNCHANGED status
  /\ UNCHANGED <<allocator, live, emptied, any_free, ThreadVars>>

\* _dbus_data_slot_list_get
dbus_data_slot_list_get ==
  /\ status = "running"
  /\ last.op = "none"
  /\ \E slot \in SlotArgs :
       LET call == [NoCall EXCEPT !.op = "get", !.slot = slot] IN
       IF slot < 0
       THEN /\ AssertBelowTable("get", slot)
            /\ UNCHANGED list
       ELSE IF ~SlotIsAllocated(allocator, slot)
       THEN /\ status' = "aborted"
            /\ last' = [call EXCEPT !.asserted = TRUE]
            /\ UNCHANGED list
       ELSE LET r == ListGet(list, slot) IN
            /\ list' = r.list
            /\ last' = [call EXCEPT !.ret = r.ret]
            /\ UNCHANGED status
  /\ UNCHANGED <<allocator, live, emptied, ever_set, set_pair, any_free, ThreadVars>>

\* _dbus_data_slot_list_free
dbus_data_slot_list_free ==
  /\ status = "running"
  /\ last.op = "none"
  /\ LET r == ListFree(list) IN
       /\ list' = r.list
       /\ last' = [NoCall EXCEPT !.op = "list_free", !.calls = r.calls,
                                 !.dropped = BagCardinality(Dropped([op |-> "list_free"]))]
       /\ ever_set' = {}
       /\ set_pair' = << >>
  /\ UNCHANGED <<allocator, status, live, emptied, any_free, ThreadVars>>

\* The caller has looked at what the call returned and goes on: the return
\* value and the out parameters of the call are gone.
Return ==
  /\ status = "running"
  /\ last.op # "none"
  /\ last' = NoCall
  /\ UNCHANGED <<allocator, list, status, live, emptied, ever_set, set_pair,
                 any_free, ThreadVars>>

Next ==
  \/ Return
  \/ dbus_data_slot_allocator_alloc
  \/ dbus_data_slot_allocator_free
  \/ dbus_data_slot_list_set
  \/ dbus_data_slot_list_get
  \/ dbus_data_slot_list_free

Spec == Init /\ [][Next]_vars

\* ------------------------------- several threads: each line is one step
\* The lines between a successful or ignored dbus_mutex_lock and the
\* return of dbus_mutex_unlock.
InRegion(t) == pc[t] \in {"a_body", "a_unlock", "f_assert", "f_mark", "f_dec", "f_unlock"}

ListVars == <<list, live, emptied, ever_set, set_pair, any_free, last>>

\* A thread calls _dbus_data_slot_allocator_alloc.
CallAlloc(t) ==
  /\ status = "running"
  /\ pc[t] = "idle"
  /\ pc' = [pc EXCEPT ![t] = "a_lock"]
  /\ t_slot' = [t_slot EXCEPT ![t] = -1]
  /\ UNCHANGED <<allocator, status, held, ListVars>>

\* if (!dbus_mutex_lock (allocator->lock)) return -1;
AllocLock(t) ==
  /\ status = "running"
  /\ pc[t] = "a_lock"
  /\ \/ /\ allocator.lock = NoThread
        /\ allocator' = [allocator EXCEPT !.lock = t]
        /\ pc' = [pc EXCEPT ![t] = "a_body"]
     \/ /\ pc' = [pc EXCEPT ![t] = "idle"]
        /\ UNCHANGED allocator
  /\ UNCHANGED <<status, t_slot, held, ListVars>>

\* The body of alloc up to the label out.
AllocRun(t) ==
  /\ status = "running"
  /\ pc[t] = "a_body"
  /\ \E mem_ok \in (IF allocator.n_allocated_slots < MaxSlots THEN BOOLEAN ELSE {FALSE}) :
       LET r == AllocBody(allocator, mem_ok) IN
         IF r.ok
         THEN /\ allocator' = r.a
              /\ t_slot' = [t_slot EXCEPT ![t] = r.slot]
              /\ pc' = [pc EXCEPT ![t] = "a_unlock"]
              /\ UNCHANGED status
         ELSE /\ status' = "aborted"
              /\ UNCHANGED <<allocator, t_slot, pc>>
  /\ UNCHANGED <<held, ListVars>>

\* dbus_mutex_unlock by thread t: releasing a mutex that t does not hold
\* is undefined for the mutex, which either stays as it is or is released.
MutexUnlock(lock, t) ==
  IF lock = t THEN {NoThread} ELSE {lock, NoThread}

\* out: dbus_mutex_unlock (allocator->lock); return slot;
AllocUnlock(t) ==
  /\ status = "running"
  /\ pc[t] = "a_unlock"
  /\ \E l \in MutexUnlock(allocator.lock, t) : allocator' = [allocator EXCEPT !.lock = l]
  /\ held' = [held EXCEPT ![t] = IF t_slot[t] >= 0 THEN @ \cup {t_slot[t]} ELSE @]
  /\ pc' = [pc EXCEPT ![t] = "idle"]
  /\ UNCHANGED <<status, t_slot, ListVars>>

\* A thread calls _dbus_data_slot_allocator_free with an identifier it
\* got from alloc.
CallFree(t) ==
  /\ status = "running"
  /\ pc[t] = "idle"
  /\ \E slot \in held[t] :
       /\ t_slot' = [t_slot EXCEPT ![t] = slot]
       /\ held' = [held EXCEPT ![t] = @ \ {slot}]
  /\ pc' = [pc EXCEPT ![t] = "f_lock"]
  /\ UNCHANGED <<allocator, status, ListVars>>

\* dbus_mutex_lock (allocator->lock); its result is not looked at.
FreeLock(t) ==
  /\ status = "running"
  /\ pc[t] = "f_lock"
  /\ \/ /\ allocator.lock = NoThread
        /\ allocator' = [allocator EXCEPT !.lock = t]
     \/ UNCHANGED allocator
  /\ pc' = [pc EXCEPT ![t] = "f_assert"]
  /\ UNCHANGED <<status, t_slot, held, ListVars>>

\* The two assertions of free.
FreeAssert(t) ==
  /\ status = "running"
  /\ pc[t] = "f_assert"
  /\ IF SlotIsAllocated(allocator, t_slot[t])
     THEN pc' = [pc EXCEPT ![t] = "f_mark"] /\ UNCHANGED status
     ELSE status' = "aborted" /\ UNCHANGED pc
  /\ UNCHANGED <<allocator, t_slot, held, ListVars>>

\* allocator->allocated_slots[slot] = -1;
FreeMark(t) ==
  /\ status = "running"
  /\ pc[t] = "f_mark"
  /\ IF t_slot[t] < allocator.n_allocated_slots
     THEN /\ allocator' = [allocator EXCEPT !.allocated_slots[t_slot[t]] = -1]
          /\ pc' = [pc EXCEPT ![t] = "f_dec"]
          /\ UNCHANGED status
     ELSE /\ status' = "undefined"
          /\ UNCHANGED <<allocator, pc>>
  /\ UNCHANGED <<t_slot, held, ListVars>>

\* allocator->n_used_slots -= 1; and the release of the table at zero.
FreeDec(t) ==
  /\ status = "running"
  /\ pc[t] = "f_dec"
  /\ allocator' =
       LET b == [allocator EXCEPT !.n_used_slots = @ - 1] IN
         IF b.n_used_slots = 0
         THEN [b EXCEPT !.allocated_slots = EmptyArray, !.n_allocated_slots = 0]
         ELSE b
  /\ pc' = [pc EXCEPT ![t] = "f_unlock"]
  /\ UNCHANGED <<status, t_slot, held, ListVars>>

\* dbus_mutex_unlock (allocator->lock);
FreeUnlock(t) ==
  /\ status = "running"
  /\ pc[t] = "f_unlock"
  /\ \E l \in MutexUnlock(allocator.lock, t) : allocator' = [allocator EXCEPT !.lock = l]
  /\ pc' = [pc EXCEPT ![t] = "idle"]
  /\ UNCHANGED <<status, t_slot, held, ListVars>>

\* A thread calls _dbus_data_slot_list_set or _dbus_data_slot_list_get on
\* a list of its own with an identifier it got from alloc.
CallList(t) ==
  /\ status = "running"
  /\ pc[t] = "idle"
  /\ \E slot \in held[t] : t_slot' = [t_slot EXCEPT ![t] = slot]
  /\ pc' = [pc EXCEPT ![t] = "l_assert"]
  /\ UNCHANGED <<allocator, status, held, ListVars>>

\* The two assertions of set and get: they read n_allocated_slots and
\* allocated_slots[slot] and no dbus_mutex_lock comes before them. The
\* rest of set and get works on the caller's list, which no other thread
\* uses.
ListAssert(t) ==
  /\ status = "running"
  /\ pc[t] = "l_assert"
  /\ IF SlotIsAllocated(allocator, t_slot[t])
     THEN pc' = [pc EXCEPT ![t] = "idle"] /\ UNCHANGED status
     ELSE status' = "aborted" /\ UNCHANGED pc
  /\ UNCHANGED <<allocator, t_slot, held, ListVars>>

\* The lines at which a thread reads or writes allocated_slots,
\* n_allocated_slots or n_used_slots.
Accessing(t) == pc[t] \in {"a_body", "f_assert", "f_mark", "f_dec", "l_assert"}

\* A step inside a call: once called, alloc, free, set and get go on.
ThreadStep(t) ==
  \/ AllocLock(t)
  \/ AllocRun(t)
  \/ AllocUnlock(t)
  \/ FreeLock(t)
  \/ FreeAssert(t)
  \/ FreeMark(t)
  \/ FreeDec(t)
  \/ FreeUnlock(t)
  \/ ListAssert(t)

ThreadNext ==
  \E t \in Threads :
    \/ CallList(t)
    \/ ListAssert(t)
    \/ CallAlloc(t)
    \/ AllocLock(t)
    \/ AllocRun(t)
    \/ AllocUnlock(t)
    \/ CallFree(t)
    \/ FreeLock(t)
    \/ FreeAssert(t)
    \/ FreeMark(t)
    \/ FreeDec(t)
    \/ FreeUnlock(t)

SpecThreads == Init /\ [][ThreadNext]_vars

\* The threads under a fair scheduler: a thread inside a call is not
\* held back for ever.
SpecThreadsFair ==
  Init /\ [][ThreadNext]_vars /\ \A t \in Threads : WF_vars(ThreadStep(t))

\* ============================================================== claims

\* C1: the identifiers that alloc has returned and that have not been
\* freed are pairwise distinct: alloc never returns an identifier that is
\* still live, so no identifier is in the bag of live identifiers twice.
C1_LiveIdentifiersDistinct ==
  \A id \in BagToSet(live) : CopiesIn(id, live) = 1

\* Identifier 0 was freed and handed out again while identifier 1 was live.
C1_Witness ==
  /\ last.op = "alloc" /\ last.ret = 0
  /\ BagIn(0, live) /\ BagIn(1, live)
  /\ allocator.n_allocated_slots >= 2

\* C2: a thread is between its dbus_mutex_lock and the return of its
\* dbus_mutex_unlock in alloc or free only while it holds the allocator's
\* lock, so no two threads are there at once, also when dbus_mutex_lock
\* can fail.
C2_MutualExclusion ==
  /\ \A t \in Threads : InRegion(t) => allocator.lock = t
  /\ \A t1, t2 \in Threads : (InRegion(t1) /\ InRegion(t2)) => t1 = t2

\* C3: a call of alloc or free whose dbus_mutex_lock fails leaves the
\* table, n_allocated_slots and n_used_slots as they were and does not
\* call dbus_mutex_unlock; alloc returns -1.
C3_LockFailureIsFailure ==
  [][(last'.op \in {"alloc", "free"} /\ ~last'.locked)
       => /\ allocator' = allocator
          /\ ~last'.unlocked
          /\ (last'.op = "alloc" => last'.ret = -1)]_vars

\* C4: an alloc whose table growth fails returns a negative value, leaves
\* the allocator as it was with its lock released, and every identifier
\* that was live is still live and still tagged in the table.
C4_GrowthFailureLeavesAllocator ==
  [][(last'.op = "alloc" /\ last'.locked /\ Returned(last') /\ last'.ret < 0)
       => /\ allocator.n_used_slots = allocator.n_allocated_slots
          /\ allocator' = allocator
          /\ last'.unlocked /\ allocator'.lock = NoThread
          /\ live' = live
          /\ \A id \in BagToSet(live) : SlotIsAllocated(allocator', id)]_vars

\* An alloc failed to grow a table that holds live identifiers.
C4_Witness ==
  /\ last.op = "alloc" /\ last.locked /\ last.ret = -1
  /\ allocator.n_allocated_slots >= 1 /\ allocator.n_allocated_slots < MaxSlots
  /\ live # EmptyBag

\* C5: a set whose list growth fails returns FALSE, leaves n_slots and
\* every entry of the list as they were, stores nothing and writes neither
\* *old_data nor *old_free_func.
C5_GrowthFailureLeavesList ==
  [][(last'.op = "set" /\ Returned(last') /\ last'.ret = 0)
       => /\ last'.slot >= list.n_slots
          /\ list' = list
          /\ ~last'.out_set]_vars

\* A set failed to grow a list that has entries, with a non-NULL value.
C5_Witness ==
  /\ last.op = "set" /\ Returned(last) /\ last.ret = 0
  /\ list.n_slots >= 1 /\ last.slot >= list.n_slots
  /\ last.data # NULL

\* C6: once a free has released the last live identifier, the next alloc
\* that succeeds returns 0.
C6_RestartAtZero ==
  [][(emptied /\ last'.op = "alloc" /\ Returned(last') /\ last'.ret >= 0)
       => last'.ret = 0]_vars

\* An alloc returned 0 right after identifiers up to 1 had all been freed.
C6_Witness ==
  /\ last.op = "alloc" /\ last.restart /\ last.ret = 0
  /\ list.n_slots >= 2

\* C7: whenever n_used_slots is 0, n_allocated_slots is 0 and the table is
\* released (NULL); when no identifier is live, n_allocated_slots is 0.
C7_EmptyWhenUnused ==
  /\ allocator.n_used_slots = 0 =>
       (allocator.n_allocated_slots = 0 /\ allocator.allocated_slots = EmptyArray)
  /\ live = EmptyBag => allocator.n_allocated_slots = 0

\* Identifier 1 was the last live identifier and has just been freed.
C7_Witness ==
  /\ last.op = "free" /\ Returned(last) /\ last.slot = 1
  /\ emptied /\ allocator.n_used_slots = 0

\* C8: get changes neither the list nor the allocator, and returns NULL
\* for an allocated slot at or beyond n_slots.
C8_GetChangesNothing ==
  [][last'.op = "get"
       => /\ list' = list
          /\ allocator' = allocator
          /\ live' = live
          /\ (Returned(last') /\ last'.slot >= list.n_slots) => last'.ret = NULL]_vars

\* A get of an allocated slot beyond the length of a list that has entries.
C8_Witness ==
  /\ last.op = "get" /\ Returned(last)
  /\ list.n_slots >= 1 /\ last.slot >= list.n_slots

\* C9: a set that succeeds writes to *old_data and *old_free_func the pair
\* that was at the slot before the call (NULL, NULL for a slot not stored
\* since the list's init or latest free), stores the new pair at the slot
\* and calls no free function.
C9_SetHandsBackOldPair ==
  [][(last'.op = "set" /\ Returned(last') /\ last'.ret = 1)
       => LET slot == last'.slot
              old == IF slot < list.n_slots THEN list.slots[slot] ELSE NullSlot IN
          /\ last'.out_set
          /\ last'.old_data = old.data
          /\ last'.old_free_func = old.free_data_func
          /\ (slot \notin ever_set =>
                (last'.old_data = NULL /\ last'.old_free_func = NULL))
          /\ list'.slots[slot] =
               [data |-> last'.data, free_data_func |-> last'.free_data_func]
          /\ last'.calls = << >>]_vars

\* A set replaced a pair that has a free function by a different pair.
C9_Witness ==
  /\ last.op = "set" /\ Returned(last) /\ last.ret = 1
  /\ last.old_free_func # NULL /\ last.old_data # last.data

\* The indexes of l whose entry has a free function.
WithFreeFunc(l) == {i \in 0..(l.n_slots - 1) : l.slots[i].free_data_func # NULL}

\* C10: the free of a list calls the free function of every entry that
\* has one, once, on that entry's data, in ascending order of the slots,
\* calls nothing else, and leaves the list empty.
C10_ListFreeCallsEachOnce ==
  [][last'.op = "list_free"
       => LET with == WithFreeFunc(list)
              calls == last'.calls IN
          /\ Len(calls) = Cardinality(with)
          /\ \A i \in with :
               LET k == Cardinality({j \in with : j < i}) + 1 IN
                 calls[k] = [func |-> list.slots[i].free_data_func,
                             data |-> list.slots[i].data]
          /\ list'.n_slots = 0
          /\ list'.slots = EmptyArray]_vars

\* A list was freed that had two entries with a free function, holding
\* different data.
C10_Witness ==
  /\ last.op = "list_free"
  /\ Len(last.calls) = 2
  /\ last.calls[1].data # last.calls[2].data

\* C11: a get that returns, of a slot that a set has stored since the
\* list's init or latest free, returns the data of the latest such set of
\* that slot, whatever calls were made in between.
C11_GetReturnsLastSet ==
  [][(last'.op = "get" /\ Returned(last') /\ last'.slot \in ever_set)
       => last'.ret = set_pair[last'.slot].data]_vars

\* get returned the non-NULL data of slot 0 from a list that also has an
\* entry for slot 1, after an identifier had been freed.
C11_Witness ==
  /\ last.op = "get" /\ Returned(last) /\ last.slot = 0
  /\ 0 \in ever_set /\ last.ret # NULL
  /\ list.n_slots >= 2 /\ any_free

\* C12: as long as no identifier has been freed, an alloc that succeeds
\* returns the number of identifiers handed out before it: 0, 1, 2, ...
C12_AllocInOrder ==
  [][(~any_free /\ last'.op = "alloc" /\ Returned(last') /\ last'.ret >= 0)
       => last'.ret = BagCardinality(live)]_vars

\* The third alloc in a row without a free returned 2.
C12_Witness ==
  /\ ~any_free /\ last.op = "alloc" /\ Returned(last)
  /\ last.ret = 2 /\ BagCardinality(live) = 3

\* C13: free on the allocator leaves the list as it is and calls no free
\* function; after every step each pair a set has stored is still in the
\* list at its slot, until list_free or a set of that slot.
C13_FreeLeavesLists ==
  [][/\ last'.op = "free" => (list' = list /\ last'.calls = << >>)
     /\ \A s \in ever_set' :
          s < list'.n_slots /\ list'.slots[s] = set_pair'[s]]_vars

\* An identifier was freed whose slot of the list holds a pair with a
\* free function.
C13_Witness ==
  /\ last.op = "free" /\ Returned(last)
  /\ last.slot \in ever_set
  /\ list.slots[last.slot].free_data_func # NULL

\* C14: a call of free, set or get with a slot that is not a live
\* identifier is stopped by an assertion: it changes neither the table,
\* n_used_slots nor the list, and reads nothing outside the table.
C14_NotLiveIsAsserted ==
  [][(last'.op \in {"free", "set", "get"} /\ ~BagIn(last'.slot, live))
       => /\ last'.asserted /\ status' = "aborted"
          /\ allocator'.allocated_slots = allocator.allocated_slots
          /\ allocator'.n_allocated_slots = allocator.n_allocated_slots
          /\ allocator'.n_used_slots = allocator.n_used_slots
          /\ list' = list]_vars

\* C15: every entry of the table holds its own index or a negative
\* value, n_used_slots is the number of entries that hold their index,
\* those indexes are the live identifiers, and
\* 0 <= n_used_slots <= n_allocated_slots.
C15_TableInvariant ==
  LET n == allocator.n_allocated_slots
      tbl == allocator.allocated_slots
      used == {i \in 0..(n - 1) : tbl[i] = i} IN
    /\ DOMAIN tbl = 0..(n - 1)
    /\ \A i \in 0..(n - 1) : tbl[i] = i \/ tbl[i] < 0
    /\ allocator.n_used_slots = Cardinality(used)
    /\ used = BagToSet(live)
    /\ 0 <= allocator.n_used_slots
    /\ allocator.n_used_slots <= n

\* A table of three entries of which the first two are free.
C15_Witness ==
  /\ allocator.n_allocated_slots = 3
  /\ allocator.n_used_slots = 1
  /\ allocator.allocated_slots[0] < 0
  /\ allocator.allocated_slots[1] < 0

\* C16: an alloc that succeeds returns the smallest non-negative integer
\* that is not live; when the table has a free entry it takes the lowest
\* one and the table keeps its size; otherwise n_used_slots =
\* n_allocated_slots, the table grows by one entry and the old
\* n_allocated_slots is returned.
C16_FirstFit ==
  [][(last'.op = "alloc" /\ Returned(last') /\ last'.ret >= 0)
       => LET n == allocator.n_allocated_slots
              tbl == allocator.allocated_slots
              slot == last'.ret IN
          /\ ~BagIn(slot, live)
          /\ \A j \in 0..(slot - 1) : BagIn(j, live)
          /\ IF \E i \in 0..(n - 1) : tbl[i] < 0
             THEN /\ slot < n /\ tbl[slot] < 0
                  /\ \A j \in 0..(slot - 1) : tbl[j] >= 0
                  /\ allocator'.n_allocated_slots = n
             ELSE /\ allocator.n_used_slots = n
                  /\ slot = n
                  /\ allocator'.n_allocated_slots = n + 1]_vars

\* alloc returned 0 from a table of three entries whose entries 0 and 1
\* were both free.
C16_Witness ==
  /\ last.op = "alloc" /\ Returned(last) /\ last.ret = 0
  /\ allocator.n_allocated_slots = 3
  /\ allocator.allocated_slots[1] < 0

\* C17: a set that succeeds leaves n_slots at the larger of the old
\* n_slots and slot + 1, the new entries other than slot NULL, NULL and
\* every other entry as it was; no call but list_free makes n_slots
\* smaller.
C17_SetGrowsToSlot ==
  [][/\ (last'.op = "set" /\ Returned(last') /\ last'.ret = 1)
          => LET slot == last'.slot
                 old == list.n_slots
                 new == IF slot + 1 > old THEN slot + 1 ELSE old IN
             /\ list'.n_slots = new
             /\ DOMAIN list'.slots = 0..(new - 1)
             /\ \A i \in (0..(new - 1)) \ {slot} :
                  list'.slots[i] = IF i < old THEN list.slots[i] ELSE NullSlot
     /\ last'.op # "list_free" => list'.n_slots >= list.n_slots]_vars

\* A set of slot 2 grew a list of one stored entry to three entries; the
\* entry of slot 1 was created NULL, NULL.
C17_Witness ==
  /\ last.op = "set" /\ Returned(last) /\ last.ret = 1 /\ last.slot = 2
  /\ list.n_slots = 3
  /\ ever_set = {0, 2}
  /\ list.slots[0] # NullSlot
  /\ list.slots[1] = NullSlot

\* C18: a thread is at a line that reads or writes allocated_slots,
\* n_allocated_slots or n_used_slots, in alloc, free, set or get, only
\* while it holds the allocator's lock.
C18_FieldsOnlyUnderLock ==
  \A t \in Threads : Accessing(t) => allocator.lock = t

\* C19: under a fair scheduler every call of alloc or free returns;
\* dbus_mutex_unlock is called only by the thread that holds the lock, and
\* a thread does not hold the lock when its call has returned.
C19_ReturnsWithLockReleased ==
  /\ [][\A t \in Threads :
          /\ (pc[t] \in {"a_unlock", "f_unlock"} /\ pc'[t] = "idle")
               => allocator.lock = t
          /\ (pc[t] # "idle" /\ pc'[t] = "idle") => allocator'.lock # t]_vars
  /\ \A t \in Threads :
       (pc[t] \in {"a_lock", "a_body", "a_unlock",
                   "f_lock", "f_assert", "f_mark", "f_dec", "f_unlock"})
         ~> (pc[t] = "idle" \/ status # "running")

\* The pairs that the list owns: those that set has stored and that have
\* left the list neither by a later set of their slot nor by list_free.
Stored == PairsOf(set_pair)

\* The pair that the call, a set that succeeded, took over.
Accepted(call) ==
  IF call.op = "set" /\ Returned(call) /\ call.ret = 1
  THEN PairsOf(<< [data |-> call.data, free_data_func |-> call.free_data_func] >>)
  ELSE EmptyBag

\* The pair that the call wrote to *old_data and *old_free_func.
HandedBack(call) ==
  IF call.out_set
  THEN PairsOf(<< [data |-> call.old_data, free_data_func |-> call.old_free_func] >>)
  ELSE EmptyBag

\* The pairs (data, function) of the calls of free functions the call made.
Destroyed(call) ==
  PairsOf([k \in 1..Len(call.calls) |->
             [data |-> call.calls[k].data, free_data_func |-> call.calls[k].func]])

\* C20 as stated: over every call, the pairs the list owned and the pair
\* it accepted are the pairs it still owns, the pair handed back and the
\* pairs passed to their free function, each once.
C20_ThreeStates ==
  [][Stored (+) Accepted(last')
       = Stored' (+) HandedBack(last') (+) Destroyed(last')]_vars

\* C20 amended: over every call, the pairs the list owned and the pair it
\* accepted are the pairs it still owns, the pair handed back, the pairs
\* passed to their free function, and the pairs without a free function
\* that list_free let go, each once.
C20_OwnershipConserved ==
  [][Stored (+) Accepted(last')
       = Stored' (+) HandedBack(last') (+) Destroyed(last') (+) Dropped(last')]_vars

\* A list_free called the free function of one pair and let go of a pair
\* that had none.
C20_Witness ==
  /\ last.op = "list_free"
  /\ Len(last.calls) = 1
  /\ last.dropped >= 1

====
